---- MODULE Spec2Model ----
(***************************************************************************)
(* RealmDB (src/src/lib/realmdb/RealmDB.js): the offline-first feed store  *)
(* that saves feed items locally, mirrors them encrypted to the remote    *)
(* encrypted_feed collection in the background, and reconciles with the   *)
(* remote in _syncFromRemote.                                              *)
(*                                                                         *)
(* Every await of the source is a suspension point: an asynchronous       *)
(* function is cut into one action per stretch of code between awaits.    *)
(* A local store operation takes effect in the action that issues it (the *)
(* store runs its transactions in the order they are issued).             *)
(***************************************************************************)
EXTENDS Integers, Sequences, FiniteSets, Bags, TLC

(* ---------------------------- bounds ---------------------------------- *)
MaxWrites == 2        \* write() calls in one behaviour
MaxFaults == 1        \* injected encrypt / remote failures in one behaviour
MaxTasks == 2         \* background _encrypt tasks in flight at once
MaxDate == 2          \* dates of the stored items of getFeedPage are 1..MaxDate
MaxListeners == 2     \* length of the listeners array
MaxPage == 2          \* numResults of getFeedPage is 1..MaxPage
MaxOffset == 2        \* offset of getFeedPage is 0..MaxOffset

(* ---------------------------- values ---------------------------------- *)
Ids == {"a", "b", "c"}
NoId == ""
UserId == "u"
Dates == 1..MaxDate

SyncTrue == "true"
SyncFalse == "false"
SyncUnset == "undefined"

Hidden == {"deleted", "cancelled", "canceled"}
Statuses == {"completed", "deleted", "canceled"}
OtplStatuses == {"undefined", "cancelled"}

\* the feed items the callers pass to write(): no _id yet
FeedItem(i, d, s, o, y) ==
  [id |-> i, _id |-> NoId, date |-> d, status |-> s, otplStatus |-> o, sync |-> y]

\* arguments of write(): item a fresh (no sync field) at two dates or read
\* back from the store with sync: false, item b, and an item without id
WriteItems ==
  { FeedItem("a", 1, "completed", "undefined", SyncUnset),
    FeedItem("a", 1, "completed", "undefined", SyncFalse),
    FeedItem("a", 2, "completed", "undefined", SyncUnset),
    FeedItem("b", 1, "completed", "undefined", SyncUnset),
    FeedItem(NoId, 1, "completed", "undefined", SyncUnset) }

\* arguments of write() in the listener specification
ListenItems ==
  { FeedItem("a", 1, "completed", "undefined", SyncFalse),
    FeedItem("a", 2, "completed", "undefined", SyncFalse) }

VARIABLES
  local,      \* db.Feed / db.FeedTable: _id -> stored feed item
  remote,     \* encrypted_feed: set of documents
  calls,      \* write() calls suspended at `await this.db.Feed.save`
  tasks,      \* _encrypt calls in flight, with the continuation that waits
  pass,       \* the _syncFromRemote call in flight
  listeners,  \* this.listeners
  gate,       \* this.ready: "pending", "resolved", "rejected"
  isReady,    \* this.isReady
  initPc,     \* position of init()
  initFail,   \* the step of the init sequence that failed, "none" if none
  nWrites,    \* write() calls that reached the local save so far
  nFaults,    \* failures injected so far
  ev          \* the step just taken: operation, arguments, result, hook calls

vars == <<local, remote, calls, tasks, pass, listeners, gate, isReady,
          initPc, initFail, nWrites, nFaults, ev>>

(* ------------------------- local store -------------------------------- *)
EmptyStore == [i \in {} |-> i]

\* a save that does not reach the store
SaveLost(store, item) == store

\* db.Feed.save(item): put by primary key _id
Save(store, item) == (item._id :> item) @@ store

\* db.FeedTable.update({_id}, {$set: {sync}}): no effect when no item matches
UpdateSync(store, id, y) ==
  IF id \in DOMAIN store
    THEN [store EXCEPT ![id] = [@ EXCEPT !.sync = y]]
    ELSE store

\* db.Feed.findById(id)
NotFound == [id |-> NoId]
FindById(store, id) == IF id \in DOMAIN store THEN store[id] ELSE NotFound

\* db.Feed.find({sync: false})
FindFailedSync(store) == { i \in DOMAIN store : store[i].sync = SyncFalse }

RECURSIVE MaxOf(_)
MaxOf(S) ==
  IF S = {} THEN 0
  ELSE LET x == CHOOSE y \in S : TRUE
           m == MaxOf(S \ {x})
       IN IF x > m THEN x ELSE m

\* FeedTable.orderBy('date').reverse().limit(1) then get(r, '[0].date', 0)
LastSync(store) == MaxOf({ store[i].date : i \in DOMAIN store })

(* ------------------------- crypto and remote -------------------------- *)
\* privateKey.public.encrypt(JSON.stringify(feedItem)) as base64
EncryptMsg(item) == <<"enc", item>>
\* JSON.parse(privateKey.decrypt(item.encrypted))
DecryptMsg(c) == c[2]

\* a ciphertext that privateKey.decrypt or JSON.parse throws on
Corrupt == <<"corrupt">>

\* _decrypt(item) returns the item: neither decrypt nor JSON.parse throws
Decrypts(r) == r.encrypted[1] = "enc"

\* `${txHash}_${user_id}`
RemoteKey(id) == <<id, UserId>>

\* the document _encrypt upserts
RemoteDoc(item) ==
  [_id |-> RemoteKey(item.id), txHash |-> item.id, user_id |-> UserId,
   encrypted |-> EncryptMsg(item), date |-> item.date]

\* an insert of the document without looking for the key
InsertOne(coll, doc) == coll \cup {doc}

\* encryptedFeed.updateOne({_id, user_id}, doc, {upsert: true})
UpdateOneUpsert(coll, doc) ==
  LET match == { r \in coll : r._id = doc._id /\ r.user_id = doc.user_id }
  IN IF match = {}
       THEN coll \cup {doc}
       ELSE LET old == CHOOSE r \in match : TRUE
            IN (coll \ {old}) \cup {doc}

\* encryptedFeed.find({user_id, date: {$gt: lastSync}})
RemoteFind(coll, lastSync) ==
  { r \in coll : r.user_id = UserId /\ r.date > lastSync }

HasMirror(id) == \E r \in remote : r._id = RemoteKey(id)

(* ------------------------- listeners ---------------------------------- *)
Callbacks == {"cb1", "cb2", "cbThrows"}
Throws(cb) == cb = "cbThrows"

\* on(cb): this.listeners.push(cb)
OnPush(lst, cb) == Append(lst, cb)

\* off(cb): this.listeners.filter(_ => _ !== cb)
OffFilter(lst, cb) == SelectSeq(lst, LAMBDA x : x # cb)

\* _notifyChange: this.listeners.map(cb => cb(data)); the sequence of
\* callbacks that get called: map stops at the first callback that throws
NotifyChange(lst) ==
  LET bad == { i \in 1..Len(lst) : Throws(lst[i]) }
  IN IF bad = {} THEN lst
     ELSE SubSeq(lst, 1, CHOOSE i \in bad : \A j \in bad : i <= j)

\* the FeedTable hook fired by one mutation of the item with key id
Hook(store, id) ==
  [id |-> id,
   event |-> IF id \in DOMAIN store THEN "updating" ELSE "creating",
   called |-> NotifyChange(listeners)]

\* hooks fired by FeedTable.update({_id: id}, ...): none when nothing matches
UpdateHooks(store, id) == IF id \in DOMAIN store THEN {Hook(store, id)} ELSE {}

(* ------------------------- bookkeeping -------------------------------- *)
\* a save or update of item id committed: pending write() calls for the
\* same id no longer hold the stored version
RECURSIVE Clobber(_, _)
Clobber(cs, id) ==
  IF cs = EmptyBag THEN EmptyBag
  ELSE LET c == CHOOSE x \in BagToSet(cs) : TRUE
           n == CopiesIn(c, cs)
           d == IF c.item.id = id THEN [c EXCEPT !.intact = FALSE] ELSE c
       IN [x \in {d} |-> n] (+) Clobber([x \in BagToSet(cs) \ {c} |-> cs[x]], id)

\* one more / one fewer pending call or task
Put(bag, x) == bag (+) SetToBag({x})
Take(bag, x) == bag (-) SetToBag({x})

\* a step whose result no property refers to
Quiet == [op |-> "step", hooks |-> {}]

IdlePass == [pc |-> "idle", initial |-> FALSE, lastSync |-> 0,
             decrypted |-> {}, failedSync |-> {}]

\* no _syncFromRemote call in flight; lastSync keeps the watermark that the
\* last call computed
EndPass(p) == [IdlePass EXCEPT !.lastSync = p.lastSync]

Init ==
  /\ local = EmptyStore
  /\ remote = {}
  /\ calls = EmptyBag
  /\ tasks = EmptyBag
  /\ pass = IdlePass
  /\ listeners = <<>>
  /\ gate = "pending"
  /\ isReady = FALSE
  /\ initPc = "open"
  /\ initFail = "none"
  /\ nWrites = 0
  /\ nFaults = 0
  /\ ev = Quiet

(* ------------------------- init() ------------------------------------- *)
\* resolve / reject of the promise created in the constructor: a promise
\* settles once, later calls are ignored
Settle(g, outcome) == IF g = "pending" THEN outcome ELSE g

\* catch (e) { this.reject(e) } of init()
InitRejected(step) ==
  /\ gate' = Settle(gate, "rejected")
  /\ initFail' = step
  /\ initPc' = "done"
  /\ ev' = [op |-> "initFailed", step |-> step, hooks |-> {}]
  /\ UNCHANGED <<local, remote, calls, tasks, pass, listeners, isReady,
                 nWrites, nFaults>>

\* _syncFromRemote() up to its first await: the watermark query is issued
StartPass(initial) ==
  [pc |-> "find", initial |-> initial, lastSync |-> LastSync(local),
   decrypted |-> {}, failedSync |-> {}]

\* init(): ThreadDB.open resumes, then the two FeedTable hooks are installed
InitOpen(outcome) ==
  /\ initPc = "open"
  /\ IF outcome = "ok"
       THEN /\ initPc' = "jwt"
            /\ ev' = Quiet
            /\ UNCHANGED <<local, remote, calls, tasks, pass, listeners, gate,
                           isReady, initFail, nWrites, nFaults>>
       ELSE InitRejected(outcome)

\* _initRealmDB(): AsyncStorage.getItem(JWT) resumes
InitJwt(outcome) ==
  /\ initPc = "jwt"
  /\ IF outcome = "ok"
       THEN /\ initPc' = "login"
            /\ ev' = Quiet
            /\ UNCHANGED <<local, remote, calls, tasks, pass, listeners, gate,
                           isReady, initFail, nWrites, nFaults>>
       ELSE InitRejected(outcome)

\* _initRealmDB(): app.logIn resumes; _syncFromRemote() is called without
\* await, _initRealmDB returns, and init() goes on to resolve() and isReady
InitLogin(outcome) ==
  /\ initPc = "login"
  /\ IF outcome = "ok"
       THEN /\ pass' = StartPass(TRUE)
            /\ gate' = Settle(gate, "resolved")
            /\ isReady' = TRUE
            /\ initPc' = "done"
            /\ ev' = Quiet
            /\ UNCHANGED <<local, remote, calls, tasks, listeners, initFail,
                           nWrites, nFaults>>
       ELSE InitRejected(outcome)

(* ------------------------- write() ------------------------------------ *)
\* a write() that does not check the id
MissingIdUnchecked(item) == FALSE

\* if (!feedItem.id)
MissingId(item) == item.id = NoId

\* write(feedItem) up to `await this.db.Feed.save(feedItem)`
WriteCall(item) ==
  /\ isReady
  /\ nWrites < MaxWrites
  /\ IF MissingId(item)
       THEN /\ ev' = [op |-> "write", item |-> item, threw |-> TRUE, hooks |-> {}]
            /\ UNCHANGED <<local, calls, nWrites>>
       ELSE LET stored == [item EXCEPT !._id = item.id]
            IN /\ local' = Save(local, stored)
               /\ calls' = Put(Clobber(calls, item.id),
                               [item |-> stored, intact |-> TRUE])
               /\ nWrites' = nWrites + 1
               /\ ev' = [op |-> "write", item |-> item, threw |-> FALSE,
                         hooks |-> {Hook(local, item.id)}]
  /\ UNCHANGED <<remote, tasks, pass, listeners, gate, isReady, initPc,
                 initFail, nFaults>>

\* write() after the save: this._encrypt(feedItem) runs up to its first
\* await, the catch handler is attached, write() returns
WriteResume(c) ==
  /\ c \in BagToSet(calls)
  /\ BagCardinality(tasks) < MaxTasks
  /\ tasks' = Put(tasks, [kind |-> "write", item |-> c.item, pc |-> "encrypting",
                          initial |-> FALSE])
  /\ calls' = Take(calls, c)
  /\ ev' = [op |-> "writeReturned", item |-> c.item, threw |-> FALSE,
            intact |-> c.intact,
            readBack |-> FindById(local, c.item.id), hooks |-> {}]
  /\ UNCHANGED <<local, remote, pass, listeners, gate, isReady, initPc,
                 initFail, nWrites, nFaults>>

(* ------------------------- _encrypt() --------------------------------- *)
\* an _encrypt that lets its errors out
EncryptRethrows(outcome) == outcome # "ok"

\* whether the promise of _encrypt rejects: its whole body is inside
\* try { } catch (e) { log.error(...) }, so it fulfils on every outcome
EncryptRejects(outcome) == FALSE

\* the continuation waiting on an _encrypt call, run when the call settles:
\* write():            .catch(e => FeedTable.update(.., {sync: false}))
\* _syncFromRemote():  await this._encrypt(item); FeedTable.update(.., {sync: true})
Continuation(kind, outcome, store, id) ==
  IF kind = "write"
    THEN IF EncryptRejects(outcome) THEN UpdateSync(store, id, SyncFalse) ELSE store
    ELSE IF EncryptRejects(outcome) THEN store ELSE UpdateSync(store, id, SyncTrue)

ContinuationUpdates(kind, outcome) ==
  IF kind = "write" THEN EncryptRejects(outcome) ELSE ~EncryptRejects(outcome)

\* the _encrypt call of task t is over with the given outcome
TaskSettles(t, outcome) ==
  LET upd == ContinuationUpdates(t.kind, outcome) /\ t.item.id \in DOMAIN local
  IN /\ local' = Continuation(t.kind, outcome, local, t.item.id)
     /\ calls' = IF upd THEN Clobber(calls, t.item.id) ELSE calls
     /\ tasks' = Take(tasks, t)
     /\ ev' = [op |-> "pushDone", kind |-> t.kind, item |-> t.item,
               outcome |-> outcome,
               hooks |-> IF upd THEN UpdateHooks(local, t.item.id) ELSE {}]

\* privateKey.public.encrypt(msg) resumes
EncryptStep(t, ok) ==
  /\ t \in BagToSet(tasks)
  /\ t.pc = "encrypting"
  /\ IF ok
       THEN /\ tasks' = Put(Take(tasks, t), [t EXCEPT !.pc = "upserting"])
            /\ ev' = Quiet
            /\ UNCHANGED <<local, calls, nFaults>>
       ELSE /\ nFaults < MaxFaults
            /\ nFaults' = nFaults + 1
            /\ TaskSettles(t, "encryptFailed")
  /\ UNCHANGED <<remote, pass, listeners, gate, isReady, initPc, initFail,
                 nWrites>>

\* encryptedFeed.updateOne(..., {upsert: true}) resumes
UpsertStep(t, ok) ==
  /\ t \in BagToSet(tasks)
  /\ t.pc = "upserting"
  /\ IF ok
       THEN /\ remote' = UpdateOneUpsert(remote, RemoteDoc(t.item))
            /\ TaskSettles(t, "ok")
            /\ UNCHANGED nFaults
       ELSE /\ nFaults < MaxFaults
            /\ nFaults' = nFaults + 1
            /\ TaskSettles(t, "upsertFailed")
            /\ UNCHANGED remote
  /\ UNCHANGED <<pass, listeners, gate, isReady, initPc, initFail, nWrites>>

(* ------------------------- _syncFromRemote() -------------------------- *)
\* the strings of the model that contain 'settings'
SettingsMarked == {"settings"}

\* _._id.toString().includes('settings'): the key is `${txHash}_${user_id}`
\* of a feed record or `${user_id}_settings` of the settings blob
IncludesSettings(key) == key[1] \in SettingsMarked \/ key[2] \in SettingsMarked

\* a batch that is dropped whole when one record fails to decrypt
DecryptedOrNone(filtered) ==
  IF \A r \in filtered : Decrypts(r)
    THEN { DecryptMsg(r.encrypted) : r \in filtered }
    ELSE {}

\* (await Promise.all(filtered.map(i => this._decrypt(i)))).filter(_ => _)
Decrypted(filtered) ==
  { DecryptMsg(r.encrypted) : r \in { q \in filtered : Decrypts(q) } }

\* a pass that keeps every record it found
Unfiltered(newItems) == newItems

\* newItems.filter(_ => !_._id.toString().includes('settings') && _.txHash)
Filtered(newItems) ==
  { r \in newItems : ~IncludesSettings(r._id) /\ r.txHash # NoId }

\* db.Feed.save(...decrypted)
SaveAll(store, items) ==
  [i \in DOMAIN store \cup { x._id : x \in items } |->
     IF \E x \in items : x._id = i
       THEN CHOOSE x \in items : x._id = i
       ELSE store[i]]

\* db.Feed.find({sync: false}).toArray()
FailedSyncItems(store) == { store[i] : i \in FindFailedSync(store) }

\* a later call of _syncFromRemote (AppSwitch, when the user comes back)
SyncFromRemoteCall ==
  /\ isReady
  /\ pass.pc = "idle"
  /\ pass' = StartPass(FALSE)
  /\ ev' = Quiet
  /\ UNCHANGED <<local, remote, calls, tasks, listeners, gate, isReady,
                 initPc, initFail, nWrites, nFaults>>

\* encryptedFeed.find resumes: filter, then either start the decrypts or,
\* with nothing to save, issue the sync:false query
SyncFind(ok) ==
  /\ pass.pc = "find"
  /\ IF ok
       THEN LET filtered == Filtered(RemoteFind(remote, pass.lastSync))
            IN /\ pass' = IF filtered # {}
                   THEN [pass EXCEPT !.pc = "save",
                           !.decrypted = Decrypted(filtered)]
                   ELSE [pass EXCEPT !.pc = "retry",
                           !.failedSync = FailedSyncItems(local)]
               /\ ev' = Quiet
               /\ UNCHANGED <<initFail, nFaults>>
       ELSE /\ nFaults < MaxFaults
            /\ nFaults' = nFaults + 1
            /\ pass' = EndPass(pass)
            /\ initFail' = IF pass.initial THEN "sync" ELSE initFail
            /\ ev' = [op |-> "syncFailed", initial |-> pass.initial, hooks |-> {}]
  /\ UNCHANGED <<local, remote, calls, tasks, listeners, gate, isReady,
                 initPc, nWrites>>

RECURSIVE ClobberAll(_, _)
ClobberAll(cs, ids) ==
  IF ids = {} THEN cs
  ELSE LET i == CHOOSE j \in ids : TRUE IN ClobberAll(Clobber(cs, i), ids \ {i})

\* the decrypts are done: db.Feed.save(...decrypted) is issued
SyncSave ==
  /\ pass.pc = "save"
  /\ local' = SaveAll(local, pass.decrypted)
  /\ calls' = ClobberAll(calls, { x._id : x \in pass.decrypted })
  /\ pass' = [pass EXCEPT !.pc = "scan"]
  /\ ev' = [op |-> "syncSaved",
            hooks |-> { Hook(local, x._id) : x \in pass.decrypted }]
  /\ UNCHANGED <<remote, tasks, listeners, gate, isReady, initPc, initFail,
                 nWrites, nFaults>>

\* the save resumes: db.Feed.find({sync: false}) is issued
SyncScan ==
  /\ pass.pc = "scan"
  /\ pass' = [pass EXCEPT !.pc = "retry", !.failedSync = FailedSyncItems(local)]
  /\ ev' = Quiet
  /\ UNCHANGED <<local, remote, calls, tasks, listeners, gate, isReady,
                 initPc, initFail, nWrites, nFaults>>

\* the query resumes: failedSync.forEach(async item => ...) starts one
\* _encrypt per item, and _syncFromRemote returns; each re-push carries
\* whether the pass that started it was the one of init()
SyncRetry ==
  /\ pass.pc = "retry"
  /\ BagCardinality(tasks) + Cardinality(pass.failedSync) <= MaxTasks
  /\ tasks' = tasks (+) SetToBag({ [kind |-> "retry", item |-> i, pc |-> "encrypting",
                                      initial |-> pass.initial] :
                                     i \in pass.failedSync })
  /\ pass' = EndPass(pass)
  /\ ev' = Quiet
  /\ UNCHANGED <<local, remote, calls, listeners, gate, isReady, initPc,
                 initFail, nWrites, nFaults>>

(* ------------------------- on() / off() ------------------------------- *)
On(cb) ==
  /\ Len(listeners) < MaxListeners
  /\ listeners' = OnPush(listeners, cb)
  /\ ev' = Quiet
  /\ UNCHANGED <<local, remote, calls, tasks, pass, gate, isReady, initPc,
                 initFail, nWrites, nFaults>>

Off(cb) ==
  /\ listeners' = OffFilter(listeners, cb)
  /\ ev' = Quiet
  /\ UNCHANGED <<local, remote, calls, tasks, pass, gate, isReady, initPc,
                 initFail, nWrites, nFaults>>

(* ------------------------- getFeedPage() ----------------------------- *)
IdOrder == <<"a", "b", "c">>
IdRank(i) == CHOOSE k \in 1..Len(IdOrder) : IdOrder[k] = i

\* index order of FeedTable.orderBy('date'): by date, then by primary key
Before(x, y) ==
  \/ x.date < y.date
  \/ x.date = y.date /\ IdRank(x._id) < IdRank(y._id)

\* FeedTable.orderBy('date').reverse(): all items, latest first
RECURSIVE OrderByDateReverse(_)
OrderByDateReverse(items) ==
  IF items = {} THEN <<>>
  ELSE LET top == CHOOSE x \in items : \A y \in items \ {x} : Before(y, x)
       IN <<top>> \o OrderByDateReverse(items \ {top})

\* .offset(n)
Offset(s, n) == SubSeq(s, n + 1, Len(s))

\* .limit(n)
Limit(s, n) == SubSeq(s, 1, IF n < Len(s) THEN n ELSE Len(s))

\* a filter that looks at status only
VisibleStatusOnly(i) == i.status \notin Hidden

\* the predicate given to .filter()
Visible(i) == i.status \notin Hidden /\ i.otplStatus \notin Hidden

Filter(s) == SelectSeq(s, Visible)

StoreItems(store) == { store[i] : i \in DOMAIN store }

\* orderBy('date').reverse().offset(offset).filter(..).limit(numResults)
FeedPage(store, numResults, offset) ==
  Limit(Filter(Offset(OrderByDateReverse(StoreItems(store)), offset)), numResults)

\* getFeedPage(numResults, offset): catch (e) { return [] }
GetFeedPage(numResults, offset, fails) ==
  /\ isReady
  /\ ev' = [op |-> "getFeedPage", numResults |-> numResults, offset |-> offset,
            failed |-> fails,
            res |-> IF fails THEN <<>> ELSE FeedPage(local, numResults, offset),
            hooks |-> {}]
  /\ UNCHANGED <<local, remote, calls, tasks, pass, listeners, gate, isReady,
                 initPc, initFail, nWrites, nFaults>>

(* ------------------------- specifications ---------------------------- *)
InitStep ==
  \/ \E o \in {"ok", "open", "hooks"} : InitOpen(o)
  \/ \E o \in {"ok", "jwt"} : InitJwt(o)
  \/ \E o \in {"ok", "login"} : InitLogin(o)

PushStep ==
  \/ \E c \in BagToSet(calls) : WriteResume(c)
  \/ \E t \in BagToSet(tasks), ok \in BOOLEAN : EncryptStep(t, ok)
  \/ \E t \in BagToSet(tasks), ok \in BOOLEAN : UpsertStep(t, ok)

SyncStep ==
  \/ SyncFromRemoteCall
  \/ \E ok \in BOOLEAN : SyncFind(ok)
  \/ SyncSave
  \/ SyncScan
  \/ SyncRetry

\* the sync engine: init, write, background push, reconciliation
Next ==
  \/ InitStep
  \/ \E item \in WriteItems : WriteCall(item)
  \/ PushStep
  \/ SyncStep

Spec == Init /\ [][Next]_vars

\* the event loop completes every pending operation, and reconciliation
\* passes keep being run
FairSpec ==
  /\ Spec
  /\ WF_vars(InitStep)
  /\ WF_vars(PushStep)
  /\ WF_vars(SyncStep)

\* the instance after a successful init() whose first pass found nothing
Ready ==
  /\ remote = {}
  /\ calls = EmptyBag
  /\ tasks = EmptyBag
  /\ pass = IdlePass
  /\ gate = "resolved"
  /\ isReady = TRUE
  /\ initPc = "done"
  /\ initFail = "none"
  /\ nWrites = 0
  /\ nFaults = 0
  /\ ev = Quiet

\* listeners: on / off interleaved with the operations that mutate the store
ListenInit ==
  /\ Ready
  /\ local = EmptyStore
  /\ listeners = <<>>

ListenNext ==
  \/ \E cb \in Callbacks : On(cb)
  \/ \E cb \in Callbacks : Off(cb)
  \/ \E item \in ListenItems : WriteCall(item)
  \/ PushStep
  \/ SyncStep

ListenSpec == ListenInit /\ [][ListenNext]_vars

\* getFeedPage over the stores of up to three items
PageItems ==
  { [FeedItem(i, d, s, o, SyncUnset) EXCEPT !._id = i] :
      i \in Ids, d \in Dates, s \in Statuses, o \in OtplStatuses }

PageStores ==
  UNION { { f \in [S -> PageItems] : \A i \in S : f[i]._id = i } : S \in SUBSET Ids }

PageInit ==
  /\ Ready
  /\ local \in PageStores
  /\ listeners = <<>>

PageNext ==
  \E n \in 1..MaxPage, off \in 0..MaxOffset, fails \in BOOLEAN :
     GetFeedPage(n, off, fails)

PageSpec == PageInit /\ [][PageNext]_vars

\* feedItem._id = feedItem.id
Stored(item) == [item EXCEPT !._id = item.id]

\* the local stores an instance is started on: empty, one item whose push
\* failed, one item dated later than every remote record
SyncStores ==
  { EmptyStore,
    Save(EmptyStore, Stored(FeedItem("a", 1, "completed", "undefined", SyncFalse))),
    Save(EmptyStore, Stored(FeedItem("b", 2, "completed", "undefined", SyncUnset))) }

\* the records found in encrypted_feed when the instance starts: mirrors
\* pushed from another device of the user (one of them of an item saved with
\* sync: false), a record without txHash, a record whose ciphertext does not
\* decrypt, the mirror of an item whose id contains 'settings', and a mirror
\* of another user
SyncRecords ==
  { RemoteDoc(Stored(FeedItem("a", 2, "completed", "undefined", SyncUnset))),
    RemoteDoc(Stored(FeedItem("b", 1, "completed", "undefined", SyncFalse))),
    [RemoteDoc(Stored(FeedItem("c", 1, "completed", "undefined", SyncUnset)))
       EXCEPT !.txHash = NoId],
    [RemoteDoc(Stored(FeedItem("c", 2, "completed", "undefined", SyncUnset)))
       EXCEPT !.encrypted = Corrupt],
    RemoteDoc(Stored(FeedItem("settings", 1, "completed", "undefined", SyncUnset))),
    [RemoteDoc(Stored(FeedItem("a", 2, "completed", "undefined", SyncUnset)))
       EXCEPT !._id = <<"a", "v">>, !.user_id = "v"] }

\* _id is the unique key of the collection
SyncRemotes ==
  { S \in SUBSET SyncRecords : \A r1, r2 \in S : r1._id = r2._id => r1 = r2 }

\* reconciliation alone: the instance right after init() of a started
\* application, its first pass at the remote find, and no write() call
SyncInit ==
  /\ local \in SyncStores
  /\ remote \in SyncRemotes
  /\ calls = EmptyBag
  /\ tasks = EmptyBag
  /\ pass = [IdlePass EXCEPT !.pc = "find", !.initial = TRUE,
                              !.lastSync = LastSync(local)]
  /\ listeners = <<>>
  /\ gate = "resolved"
  /\ isReady = TRUE
  /\ initPc = "done"
  /\ initFail = "none"
  /\ nWrites = 0
  /\ nFaults = 0
  /\ ev = Quiet

SyncNext ==
  \/ \E t \in BagToSet(tasks), ok \in BOOLEAN : EncryptStep(t, ok)
  \/ \E t \in BagToSet(tasks), ok \in BOOLEAN : UpsertStep(t, ok)
  \/ SyncStep

SyncSpec == SyncInit /\ [][SyncNext]_vars

\* arguments of write() in the specification of the settings marker: an
\* item whose id contains 'settings', fresh and read back with sync: false,
\* and item a at two dates
MarkerItems ==
  { FeedItem("settings", 1, "completed", "undefined", SyncUnset),
    FeedItem("settings", 1, "completed", "undefined", SyncFalse),
    FeedItem("a", 1, "completed", "undefined", SyncUnset),
    FeedItem("a", 2, "completed", "undefined", SyncUnset) }

\* writes of items with and without the settings marker in their id, with
\* their pushes and the reconciliation passes
MarkerInit ==
  /\ Ready
  /\ local = EmptyStore
  /\ listeners = <<>>

MarkerNext ==
  \/ \E item \in MarkerItems : WriteCall(item)
  \/ PushStep
  \/ SyncStep

MarkerSpec == MarkerInit /\ [][MarkerNext]_vars

(* ------------------------- properties -------------------------------- *)
\* two versions of an item that differ at most in the sync flag
SameButSync(x, y) == [x EXCEPT !.sync = SyncUnset] = [y EXCEPT !.sync = SyncUnset]

\* C1: when the background push of a write(item) has finished with a failure
\* (encryption or remote upsert), the local copy of the item has sync = false.
C1_FailedPushMarksUnsynced ==
  (ev.op = "pushDone" /\ ev.kind = "write" /\ ev.outcome # "ok")
    => FindById(local, ev.item.id).sync = SyncFalse

\* C2: when the re-push of an item scanned with sync = false has finished, the
\* item's sync flag is true if the remote upsert succeeded and false otherwise.
C2_RetryFlagFollowsOutcome ==
  (/\ ev.op = "pushDone"
   /\ ev.kind = "retry"
   /\ SameButSync(FindById(local, ev.item.id), ev.item))
    => local[ev.item.id].sync = IF ev.outcome = "ok" THEN SyncTrue ELSE SyncFalse

\* C3: with a remote that stays available from some point on and passes that
\* keep being run, eventually every local feed item has a remote mirror
\* for good.
C3_EventualConvergence == <>[](\A i \in DOMAIN local : HasMirror(i))

\* C4 as stated: write(item) with an id does not raise, and a read of the id
\* issued right after write returned gives back exactly that item.
C4_ReadReturnsWrittenItem ==
  ev.op = "writeReturned" => (~ev.threw /\ ev.readBack = ev.item)

\* C4: the local save of a write(item) with an id is committed before its
\* encryption starts, write does not raise, and a read of the id issued right
\* after write returned gives back that item unless another save or sync-flag
\* update of the same id was issued while write was suspended at its save.
C4_SavedBeforePush ==
  /\ \A t \in BagToSet(tasks) : t.kind = "write" => t.item.id \in DOMAIN local
  /\ ev.op = "writeReturned" =>
       /\ ~ev.threw
       /\ ev.item.id \in DOMAIN local
       /\ ev.intact => ev.readBack = ev.item

\* write(item) returned with its push pending and read gives the item back
C4_Witness ==
  /\ ev.op = "writeReturned"
  /\ ev.intact
  /\ ev.readBack = ev.item
  /\ \E t \in BagToSet(tasks) : t.kind = "write" /\ t.item = ev.item

\* C5: the gate is never resolved, nor isReady set, while the reconciliation
\* pass started by init is still in progress.
C5_GateAfterInitialSync ==
  ~((gate = "resolved" \/ isReady) /\ pass.initial /\ pass.pc # "idle")

\* C6: once a step of the init sequence has failed (open, hooks, jwt, login
\* or the initial pass) the gate is rejected and isReady is false; the gate is
\* not pending when init is over; a settled gate never changes.
C6_InitFailureRejects ==
  [][/\ initFail' # "none" => (gate' = "rejected" /\ ~isReady')
     /\ initPc' = "done" => gate' # "pending"
     /\ gate # "pending" => gate' = gate]_vars

\* C7: write(item) without id raises and changes nothing: local store,
\* remote store, pending saves and pushes are as before, no hook fires.
C7_InvalidWriteNoSideEffects ==
  [][(ev'.op = "write" /\ ev'.item.id = NoId) =>
       /\ ev'.threw
       /\ ev'.hooks = {}
       /\ UNCHANGED <<local, remote, calls, tasks, pass, listeners>>]_vars

\* write without id raised on a store that holds items
C7_Witness ==
  /\ ev.op = "write"
  /\ ev.item.id = NoId
  /\ ev.threw
  /\ local # EmptyStore
  /\ remote # {}

\* the page of C8: order by date descending, drop the hidden items, skip
\* offset of the rest, take numResults
ClaimedPage(store, numResults, offset) ==
  Limit(Offset(Filter(OrderByDateReverse(StoreItems(store))), offset), numResults)

\* C8: getFeedPage(numResults, offset) returns the items ordered by date
\* descending, without the hidden ones, from position offset on, numResults
\* of them at most.
C8_FilterThenOffset ==
  (ev.op = "getFeedPage" /\ ~ev.failed)
    => ev.res = ClaimedPage(local, ev.numResults, ev.offset)

\* C9: no item returned by getFeedPage has a status or otplStatus of deleted,
\* cancelled or canceled, and a failed query gives the empty sequence.
C9_NoHiddenItems ==
  ev.op = "getFeedPage" =>
    /\ \A k \in 1..Len(ev.res) :
         ev.res[k].status \notin Hidden /\ ev.res[k].otplStatus \notin Hidden
    /\ ev.failed => ev.res = <<>>

\* a page with items, from a store that holds a deleted and a cancelled item
C9_Witness ==
  /\ ev.op = "getFeedPage"
  /\ ~ev.failed
  /\ Len(ev.res) > 0
  /\ \E i \in DOMAIN local : local[i].status \in Hidden
  /\ \E i \in DOMAIN local : local[i].otplStatus \in Hidden

\* C10: each mutation of the local store calls exactly the registered
\* callbacks, once per registration, in registration order.
C10_AllListenersInOrder == \A h \in ev.hooks : h.called = listeners

\* C11: when a registered callback throws while it is notified of a mutation,
\* every registered callback, those registered after the throwing one
\* included, is still called for that mutation.
C11_ThrowingListenerIsolated ==
  \A h \in ev.hooks :
    (\E k \in 1..Len(listeners) : Throws(listeners[k])) =>
      \A k \in 1..Len(listeners) :
        k <= Len(h.called) /\ h.called[k] = listeners[k]

\* C12: with no write and no remote change by others, a reconciliation pass
\* that follows another pass mutates nothing in the local store: its batch
\* upsert inserts or replaces no item, and no re-push that it starts changes
\* a sync flag.
C12_SecondPassNoMutation ==
  [][initFail = "none" =>
       /\ (pass.pc = "save" /\ pass'.pc = "scan" /\ ~pass.initial) => local' = local
       /\ \A t \in BagToSet(tasks) :
            (t.kind = "retry" /\ ~t.initial /\ tasks' = Take(tasks, t))
              => local' = local]_vars

\* C13: after any writes, failed pushes and re-pushes, encrypted_feed holds at
\* most one record per feed item of the user, and its key is
\* <item id>_<userId>: a re-push replaces the record of the original push.
C13_OneMirrorPerItem ==
  /\ \A r1, r2 \in remote :
       (r1.txHash = r2.txHash /\ r1.user_id = r2.user_id) => r1 = r2
  /\ \A r \in remote : r._id = RemoteKey(r.txHash) /\ r.user_id = UserId

\* a re-push has succeeded after a failed push, over the record of the
\* original push of the item
C13_Witness ==
  /\ ev.op = "pushDone"
  /\ ev.kind = "retry"
  /\ ev.outcome = "ok"
  /\ nFaults > 0
  /\ nWrites > 1
  /\ Cardinality({ r \in remote : r.txHash = ev.item.id }) = 1

\* C14: once all pushes of an item have finished, its remote mirror holds the
\* content of the most recent write whose push succeeded. Stated for the
\* behaviours in which no push failed and no pass has touched the local
\* store yet (the initial pass is still at its remote find), where that
\* write is the version in the local store.
C14_MirrorIsLatestPushedWrite ==
  (/\ pass.initial
   /\ pass.pc = "find"
   /\ nFaults = 0
   /\ calls = EmptyBag
   /\ tasks = EmptyBag)
    => \A r \in remote :
         r.txHash \in DOMAIN local /\ DecryptMsg(r.encrypted) = local[r.txHash]

\* the version of item id in the local store has its mirror in the remote
LatestMirrored(id) ==
  /\ id \in DOMAIN local
  /\ \E r \in remote :
       r.txHash = id /\ SameButSync(DecryptMsg(r.encrypted), local[id])

\* C15: when the push of an older write of an item fails after the push of a
\* newer write of it has succeeded, so that the latest version is mirrored,
\* the failure does not set sync = false: the item is left as it was.
C15_OldFailureKeepsFlag ==
  [][(/\ ev'.op = "pushDone"
      /\ ev'.kind = "write"
      /\ ev'.outcome # "ok"
      /\ LatestMirrored(ev'.item.id)
      /\ ~SameButSync(ev'.item, local[ev'.item.id]))
       => local' = local]_vars

\* the push of an older write has failed while the newer version is
\* mirrored, and the item does not have sync = false
C15_Witness ==
  /\ ev.op = "pushDone"
  /\ ev.kind = "write"
  /\ ev.outcome # "ok"
  /\ LatestMirrored(ev.item.id)
  /\ ~SameButSync(ev.item, local[ev.item.id])
  /\ local[ev.item.id].sync # SyncFalse

\* C16: the batch upsert of a reconciliation pass does not replace a local
\* item by an older remote version. Every record of the remote is here the
\* push of a version that the local store held before or holds now, so the
\* upsert must leave every item that is already in the local store as it is.
C16_PassKeepsNewerLocal ==
  [][(pass.pc = "save" /\ pass'.pc = "scan")
       => \A i \in DOMAIN local : local'[i] = local[i]]_vars

\* C17: no write and no reconciliation pass creates a remote mirror for a
\* filtered item: no record of the remote has a key with the settings marker
\* or lacks txHash.
C17_NoMirrorForFiltered ==
  \A r \in remote : ~IncludesSettings(r._id) /\ r.txHash # NoId

\* a remote record that a pass may merge: of the current user, with txHash,
\* its key without the settings marker
Eligible(r) ==
  r.user_id = UserId /\ r.txHash # NoId /\ ~IncludesSettings(r._id)

\* the records of the current user dated after 0
DatedRecords == { r \in remote : r.user_id = UserId /\ r.date > 0 }

\* empty local store, 3 remote records dated after 0: one without txHash,
\* two valid
ThreeRecordScenario ==
  /\ local = EmptyStore
  /\ Cardinality(DatedRecords) = 3
  /\ Cardinality({ r \in DatedRecords : r.txHash = NoId }) = 1
  /\ \A r \in DatedRecords : r.txHash # NoId => (Eligible(r) /\ Decrypts(r))

\* C18: every item that a reconciliation pass decrypts for its batch upsert
\* comes from a remote record of the current user that has a txHash and no
\* settings marker in its key, and the batch upsert inserts or replaces
\* nothing else; on an empty local store with 3 remote records dated after 0,
\* one of them without txHash, the local store holds exactly the 2 valid
\* ones after the upsert.
C18_OnlyEligibleInserted ==
  [][/\ (pass.pc = "find" /\ pass'.pc = "save") =>
          \A x \in pass'.decrypted :
             \E r \in remote : Eligible(r) /\ Decrypts(r) /\ DecryptMsg(r.encrypted) = x
     /\ (pass.pc = "save" /\ pass'.pc = "scan") =>
          /\ \A i \in DOMAIN local' :
               (i \notin DOMAIN local \/ local'[i] # local[i])
                 => local'[i] \in pass.decrypted
          /\ ThreeRecordScenario =>
               StoreItems(local') =
                 { DecryptMsg(r.encrypted) : r \in { q \in DatedRecords : q.txHash # NoId } }]_vars

\* the pass has upserted the 2 valid records of 3 into the empty store
C18_Witness ==
  /\ ev.op = "syncSaved"
  /\ pass.pc = "scan"
  /\ pass.lastSync = 0
  /\ Cardinality(DatedRecords) = 3
  /\ Cardinality({ r \in DatedRecords : r.txHash = NoId }) = 1
  /\ DOMAIN local = {"a", "b"}

\* the eligible records that the pass in flight found and could not decrypt
Undecryptable ==
  { r \in Filtered(RemoteFind(remote, pass.lastSync)) : ~Decrypts(r) }

\* C19: a record of the batch that fails to decrypt is skipped alone: once
\* the remote find has returned, the pass goes on with every eligible record
\* of the batch that decrypts, upserts all of them into the local store,
\* then runs its scan of the sync = false items and starts their re-pushes;
\* it does not fail.
C19_DecryptFailureSkipsOne ==
  [][/\ (pass.pc = "find" /\ pass' # pass /\ ev'.op # "syncFailed"
           /\ Undecryptable # {}) =>
          /\ pass'.pc = "save"
          /\ pass'.decrypted =
               { DecryptMsg(r.encrypted) :
                   r \in Filtered(RemoteFind(remote, pass.lastSync)) \ Undecryptable }
     /\ (pass.pc = "save" /\ pass' # pass) =>
          /\ pass'.pc = "scan"
          /\ \A x \in pass.decrypted : x._id \in DOMAIN local' /\ local'[x._id] = x
     /\ (pass.pc = "scan" /\ pass' # pass) =>
          /\ pass'.pc = "retry"
          /\ pass'.failedSync = FailedSyncItems(local)
     /\ (pass.pc \in {"save", "scan", "retry"}) =>
          (initFail' = initFail /\ ev'.op # "syncFailed")]_vars

\* a pass found a record that does not decrypt next to one that does, has
\* upserted the latter and has scanned the sync = false items
C19_Witness ==
  /\ pass.pc = "retry"
  /\ Undecryptable # {}
  /\ pass.decrypted # {}
  /\ \A x \in pass.decrypted : x._id \in DOMAIN local /\ SameButSync(local[x._id], x)
  /\ pass.failedSync # {}

\* C20: as long as no operation has failed, the watermark that a pass
\* computes at its start is not lower than the watermark computed by the
\* pass before it, and the items a pass decrypts for its batch upsert come
\* from remote records dated strictly after the watermark it computed.
C20_WatermarkMonotone ==
  [][/\ (nFaults = 0 /\ pass.pc = "idle" /\ pass'.pc = "find")
          => pass'.lastSync >= pass.lastSync
     /\ (pass.pc = "find" /\ pass'.pc = "save")
          => \A x \in pass'.decrypted :
               \E r \in remote :
                  /\ r.date > pass.lastSync
                  /\ Decrypts(r)
                  /\ DecryptMsg(r.encrypted) = x]_vars

====
